---- MODULE Spec2Model ----
(***************************************************************************)
(* Model of Quake3ShaderFileSystem (common/src/IO/Quake3ShaderFileSystem.cpp) *)
(* One doReadDirectory pass: loadShaders, then linkShaders, which runs     *)
(* linkTextures and linkStandaloneShaders.  The underlying file system,    *)
(* the shader parser and the namespace of the image file system base class *)
(* are collaborators; their answers are drawn from small sets.             *)
(***************************************************************************)
EXTENDS Integers, Sequences, FiniteSets, TLC

(* ------------------------------ bounds --------------------------------- *)
\* most shader descriptions the parser returns over all files of one pass
MaxShaders == 2
\* most image files the texture roots hold over all roots of one pass
MaxTextures == 2

(* ------------------------------- paths --------------------------------- *)
\* a std::filesystem::path: parent directory, stem and extension of the name
Path(dir, stem, ext) == [dir |-> dir, stem |-> stem, ext |-> ext]
NoPath == Path("", "", "")

\* kdl::path_remove_extension: parent_path() / stem()
path_remove_extension(path) == Path(path.dir, path.stem, "")

\* the constructor's arguments, fixed for the lifetime of the object
m_shaderSearchPath == Path("", "scripts", "")
m_textureSearchPaths == <<Path("", "textures", ""), Path("", "models", "")>>

\* the .shader files a listing of the shader root may return, in listing order
ShaderFileNames ==
  <<Path("scripts", "a", ".shader"), Path("scripts", "b", ".shader")>>

\* the image files the texture roots may hold
ImageFiles ==
  { Path("textures", "brick", ".tga"), Path("textures", "brick", ".png"),
    Path("textures", "plain", ".jpg"), Path("models", "crate", ".tga") }

\* Assets::Quake3Shader: the shader path, the editor image, and the rest of
\* the parsed body (stages counts the parsed stages; 0 for a default body)
Shader(shaderPath, editorImage, stages) ==
  [shaderPath |-> shaderPath, editorImage |-> editorImage, stages |-> stages]

\* the descriptions the parser may return
ParsedShaders ==
  { Shader(Path("textures", "brick", ""), NoPath, 1),
    Shader(Path("textures", "brick", ""), NoPath, 2),
    Shader(Path("textures", "unused", ""), NoPath, 1) }

\* paths at which this file system may already report a file before the pass
ExistingFiles == { Path("textures", "brick", ""), Path("textures", "unused", "") }

(* ------------------------------ helpers -------------------------------- *)
Range(s) == { s[i] : i \in 1..Len(s) }

RECURSIVE SeqsUpTo(_, _)
\* all sequences over S of length at most n
SeqsUpTo(S, n) ==
  IF n <= 0 THEN { <<>> }
  ELSE LET shorter == SeqsUpTo(S, n - 1)
       IN shorter \cup { Append(s, x) : s \in shorter, x \in S }

\* sequences without repetition: a directory listing names a file once
Listings(S, n) ==
  { s \in SeqsUpTo(S, n) : \A i, j \in 1..Len(s) : i # j => s[i] # s[j] }

\* Result<T>
Ok(value) == [ok |-> TRUE, value |-> value, error |-> ""]
Err(error) == [ok |-> FALSE, value |-> <<>>, error |-> error]

RECURSIVE vec_flatten(_)
\* kdl::vec_flatten: the concatenation of the nested vectors, in order
vec_flatten(nested) ==
  IF nested = <<>> THEN <<>> ELSE Head(nested) \o vec_flatten(Tail(nested))

\* the values of a vector of results
Values(results) == [i \in 1..Len(results) |-> results[i].value]

\* kdl::fold_results: the first error if any result is an error, else all values
fold_results(results) ==
  IF \E i \in 1..Len(results) : ~results[i].ok
    THEN LET first == CHOOSE i \in 1..Len(results) :
                        /\ ~results[i].ok
                        /\ \A k \in 1..(i - 1) : results[k].ok
         IN Err(results[first].error)
    ELSE Ok(Values(results))

VARIABLES
  pc,                \* position of the pass
  fsInfo,            \* m_fs.pathInfo of the search roots
  existing,          \* paths this file system reports as File before the pass
  calls,             \* find and openFile calls made on m_fs, in order
  failures,          \* the calls on m_fs that returned an error
  log,               \* messages sent to m_logger, in order
  paths,             \* loadShaders: the listed shader files
  parserOut,         \* loadShaders: what the parser did with each opened file
  nestedShaders,     \* loadShaders: result of loadShaderFile per file
  loaded,            \* the vector loadShaders returned
  shaders,           \* the vector linkShaders works on (the pending pool)
  roots,             \* linkShaders: the filtered texture search paths
  nestedImagePaths,  \* linkShaders: result of find per filtered root
  textures,          \* linkTextures: allImagePaths
  t,                 \* linkTextures: index of the next texture
  outcome,           \* linkTextures: branch taken for each processed texture
  s,                 \* linkStandaloneShaders: index of the next shader
  added,             \* addFile calls made, in order
  result             \* what doReadDirectory returned

vars == <<pc, fsInfo, existing, calls, failures, log, paths, parserOut,
          nestedShaders, loaded, shaders, roots, nestedImagePaths, textures, t,
          outcome, s, added, result>>

SearchRoots == {m_shaderSearchPath} \cup Range(m_textureSearchPaths)

Call(op, path) == [op |-> op, path |-> path]
LogEntry(level, msg, path, count) ==
  [level |-> level, msg |-> msg, path |-> path, count |-> count]

\* m_fs.pathInfo
m_fs_pathInfo(path) == fsInfo[path]

\* addFile of the image file system base class: binds path to a producer
\* that returns the given shader file
addFile(files, path, shader) == Append(files, [path |-> path, shader |-> shader])

\* pathInfo of this file system: File where an entry is bound
pathInfo(path) ==
  IF path \in existing \/ \E i \in 1..Len(added) : added[i].path = path
    THEN "File"
    ELSE "Unknown"

Init ==
  /\ pc = "loadShaders"
  /\ fsInfo \in [SearchRoots -> {"Directory", "File", "Unknown"}]
  /\ existing \in SUBSET ExistingFiles
  /\ calls = <<>>
  /\ failures = {}
  /\ log = <<>>
  /\ paths = <<>>
  /\ parserOut = <<>>
  /\ nestedShaders = <<>>
  /\ loaded = <<>>
  /\ shaders = <<>>
  /\ roots = <<>>
  /\ nestedImagePaths = <<>>
  /\ textures = <<>>
  /\ t = 1
  /\ outcome = <<>>
  /\ s = 1
  /\ added = <<>>
  /\ result = "none"

(* ----------------------------- loadShaders ----------------------------- *)
\* the answers of openFile and of the parser for one shader file
ParseOutcomes(room) ==
  { [throws |-> TRUE, shaders |-> <<>>] }
    \cup { [throws |-> FALSE, shaders |-> l] : l \in SeqsUpTo(ParsedShaders, room) }

\* variant: the ParserException escapes and the file counts as a failure
loadShaderFile_rethrow(opened, parse) ==
  IF ~opened.ok THEN Err(opened.error)
  ELSE IF parse.throws THEN Err("ParserException")
  ELSE Ok(parse.shaders)

\* variant: a file that cannot be opened is skipped like a malformed one
loadShaderFile_swallow(opened, parse) ==
  IF ~opened.ok \/ parse.throws THEN Ok(<<>>) ELSE Ok(parse.shaders)

\* loadShaderFile: openFile(path).transform(parse, or an empty vector when
\* the parser throws a ParserException)
loadShaderFile(opened, parse) ==
  IF ~opened.ok THEN Err(opened.error)
  ELSE IF parse.throws THEN Ok(<<>>)
  ELSE Ok(parse.shaders)

\* the warning of the catch block
loadShaderFileLog(path, opened, parse) ==
  IF opened.ok /\ parse.throws
    THEN <<LogEntry("warn", "Skipping malformed shader file", path, 0)>>
    ELSE <<>>

Fail ==
  /\ pc' = "error"
  /\ result' = "error"

\* the shader search path is not a directory: an empty vector, no listing
LoadShadersNoDirectory ==
  /\ pc = "loadShaders"
  /\ m_fs_pathInfo(m_shaderSearchPath) # "Directory"
  /\ loaded' = <<>>
  /\ shaders' = <<>>
  /\ pc' = "linkShaders"
  /\ UNCHANGED <<fsInfo, existing, calls, failures, log, paths, parserOut,
                 nestedShaders, roots, nestedImagePaths, textures, t, outcome,
                 s, added, result>>

\* m_fs.find(m_shaderSearchPath, Flat, {".shader"})
FindShaderFiles ==
  /\ pc = "loadShaders"
  /\ m_fs_pathInfo(m_shaderSearchPath) = "Directory"
  /\ calls' = Append(calls, Call("find", m_shaderSearchPath))
  /\ \/ /\ failures' = failures \cup {Call("find", m_shaderSearchPath)}
        /\ Fail
        /\ UNCHANGED paths
     \/ /\ \E n \in 0..Len(ShaderFileNames) : paths' = SubSeq(ShaderFileNames, 1, n)
        /\ pc' = "loadShaderFile"
        /\ UNCHANGED <<failures, result>>
  /\ UNCHANGED <<fsInfo, existing, log, parserOut, nestedShaders, loaded,
                 shaders, roots, nestedImagePaths, textures, t, outcome, s,
                 added>>

\* kdl::vec_transform(paths, loadShaderFile): one file
LoadShaderFile ==
  /\ pc = "loadShaderFile"
  /\ Len(nestedShaders) < Len(paths)
  /\ LET path == paths[Len(nestedShaders) + 1]
         room == MaxShaders - Len(vec_flatten(Values(nestedShaders)))
     IN /\ calls' = Append(calls, Call("openFile", path))
        /\ \E opened \in {Ok(<<path>>), Err("openFile")} :
             \E parse \in (IF opened.ok THEN ParseOutcomes(room)
                                        ELSE {[throws |-> FALSE, shaders |-> <<>>]}) :
               /\ nestedShaders' =
                    Append(nestedShaders, loadShaderFile(opened, parse))
               /\ log' = log \o loadShaderFileLog(path, opened, parse)
               /\ parserOut' =
                    Append(parserOut,
                           [opened |-> opened.ok, throws |-> parse.throws,
                            shaders |-> parse.shaders])
               /\ failures' = IF opened.ok THEN failures
                              ELSE failures \cup {Call("openFile", path)}
  /\ UNCHANGED <<pc, fsInfo, existing, paths, loaded, shaders, roots,
                 nestedImagePaths, textures, t, outcome, s, added, result>>

\* fold_results, vec_flatten and the "Loaded n shaders" message
FoldShaders ==
  /\ pc = "loadShaderFile"
  /\ Len(nestedShaders) = Len(paths)
  /\ LET folded == fold_results(nestedShaders)
     IN IF folded.ok
          THEN LET allShaders == vec_flatten(folded.value)
               IN /\ loaded' = allShaders
                  /\ shaders' = allShaders
                  /\ log' = Append(log, LogEntry("info", "Loaded shaders", NoPath,
                                                 Len(allShaders)))
                  /\ pc' = "linkShaders"
                  /\ UNCHANGED result
          ELSE /\ Fail
               /\ UNCHANGED <<loaded, shaders, log>>
  /\ UNCHANGED <<fsInfo, existing, calls, failures, paths, parserOut,
                 nestedShaders, roots, nestedImagePaths, textures, t, outcome,
                 s, added>>

(* ----------------------------- linkShaders ----------------------------- *)
\* variant: the search paths are not filtered
existingTextureSearchPaths_all(searchPaths) == searchPaths

\* kdl::vec_filter(m_textureSearchPaths, pathInfo == Directory)
existingTextureSearchPaths(searchPaths) ==
  SelectSeq(searchPaths, LAMBDA p : m_fs_pathInfo(p) = "Directory")

FilterTextureSearchPaths ==
  /\ pc = "linkShaders"
  /\ roots' = existingTextureSearchPaths(m_textureSearchPaths)
  /\ pc' = "findTextures"
  /\ UNCHANGED <<fsInfo, existing, calls, failures, log, paths, parserOut,
                 nestedShaders, loaded, shaders, nestedImagePaths, textures, t,
                 outcome, s, added, result>>

\* m_fs.find(textureSearchPath, Recursive, {".tga", ".png", ".jpg", ".jpeg"})
FindTextures ==
  /\ pc = "findTextures"
  /\ Len(nestedImagePaths) < Len(roots)
  /\ LET root == roots[Len(nestedImagePaths) + 1]
         room == MaxTextures - Len(vec_flatten(Values(nestedImagePaths)))
         under == { f \in ImageFiles : f.dir = root.stem }
     IN /\ calls' = Append(calls, Call("find", root))
        /\ \/ /\ nestedImagePaths' = Append(nestedImagePaths, Err("find"))
              /\ failures' = failures \cup {Call("find", root)}
           \/ /\ \E found \in Listings(under, room) :
                   nestedImagePaths' = Append(nestedImagePaths, Ok(found))
              /\ UNCHANGED failures
  /\ UNCHANGED <<pc, fsInfo, existing, log, paths, parserOut, nestedShaders,
                 loaded, shaders, roots, textures, t, outcome, s, added, result>>

\* fold_results and vec_flatten of the listings, then the start of linkTextures
FoldTextures ==
  /\ pc = "findTextures"
  /\ Len(nestedImagePaths) = Len(roots)
  /\ LET folded == fold_results(nestedImagePaths)
     IN IF folded.ok
          THEN /\ textures' = vec_flatten(folded.value)
               /\ log' = log \o <<LogEntry("info", "Linking shaders...", NoPath, 0),
                                  LogEntry("debug", "Linking textures...", NoPath, 0)>>
               /\ pc' = "linkTextures"
               /\ UNCHANGED result
          ELSE /\ Fail
               /\ UNCHANGED <<textures, log>>
  /\ UNCHANGED <<fsInfo, existing, calls, failures, paths, parserOut,
                 nestedShaders, loaded, shaders, roots, nestedImagePaths, t,
                 outcome, s, added>>

(* ----------------------------- linkTextures ---------------------------- *)
\* variant: the predicate compares the editor image instead of the shader path
find_if_editorImage(pool, shaderPath) ==
  IF \E i \in 1..Len(pool) : pool[i].editorImage = shaderPath
    THEN CHOOSE i \in 1..Len(pool) :
           /\ pool[i].editorImage = shaderPath
           /\ \A k \in 1..(i - 1) : pool[k].editorImage # shaderPath
    ELSE Len(pool) + 1

\* std::find_if over the pool: the index of the first shader with the given
\* shader path, Len + 1 (end) when there is none
find_if(pool, shaderPath) ==
  IF \E i \in 1..Len(pool) : pool[i].shaderPath = shaderPath
    THEN CHOOSE i \in 1..Len(pool) :
           /\ pool[i].shaderPath = shaderPath
           /\ \A k \in 1..(i - 1) : pool[k].shaderPath # shaderPath
    ELSE Len(pool) + 1

\* variant: erase(shaderIt, end) removes the rest of the pool as well
erase_toEnd(pool, i) == SubSeq(pool, 1, i - 1)

\* variant: the matched shader is not removed
erase_nothing(pool, i) == pool

\* std::vector::erase of one element
erase(pool, i) == SubSeq(pool, 1, i - 1) \o SubSeq(pool, i + 1, Len(pool))

\* variant: the check is missing
notLinkedYet_always(shaderPath) == TRUE

\* "Only link a shader if it has not been linked yet."
notLinkedYet(shaderPath) == pathInfo(shaderPath) # "File"

\* variant: the two arguments are swapped
generateShader_swapped(shaderPath, texture) == Shader(texture, shaderPath, 0)

\* Assets::Quake3Shader{shaderPath, texture}
generateShader(shaderPath, texture) == Shader(shaderPath, texture, 0)

\* one iteration of the loop over the textures
LinkTexture ==
  /\ pc = "linkTextures"
  /\ t <= Len(textures)
  /\ LET texture == textures[t]
         shaderPath == path_remove_extension(texture)
         shaderIt == find_if(shaders, shaderPath)
     IN IF notLinkedYet(shaderPath)
          THEN IF shaderIt # Len(shaders) + 1
                 THEN /\ added' = addFile(added, shaderPath, shaders[shaderIt])
                      /\ shaders' = erase(shaders, shaderIt)
                      /\ outcome' = Append(outcome, "linked")
                 ELSE /\ added' = addFile(added, shaderPath,
                                          generateShader(shaderPath, texture))
                      /\ outcome' = Append(outcome, "generated")
                      /\ UNCHANGED shaders
          ELSE /\ outcome' = Append(outcome, "skipped")
               /\ UNCHANGED <<added, shaders>>
  /\ t' = t + 1
  /\ UNCHANGED <<pc, fsInfo, existing, calls, failures, log, paths, parserOut,
                 nestedShaders, loaded, roots, nestedImagePaths, textures, s,
                 result>>

\* the loop is over: linkTextures returns and linkStandaloneShaders starts
LinkTexturesDone ==
  /\ pc = "linkTextures"
  /\ t > Len(textures)
  /\ log' = Append(log, LogEntry("debug", "Linking standalone shaders...", NoPath, 0))
  /\ pc' = "linkStandaloneShaders"
  /\ UNCHANGED <<fsInfo, existing, calls, failures, paths, parserOut,
                 nestedShaders, loaded, shaders, roots, nestedImagePaths,
                 textures, t, outcome, s, added, result>>

(* ------------------------ linkStandaloneShaders ------------------------ *)
\* one iteration of the loop over the remaining shaders
LinkStandaloneShader ==
  /\ pc = "linkStandaloneShaders"
  /\ s <= Len(shaders)
  /\ added' = addFile(added, shaders[s].shaderPath, shaders[s])
  /\ s' = s + 1
  /\ UNCHANGED <<pc, fsInfo, existing, calls, failures, log, paths, parserOut,
                 nestedShaders, loaded, shaders, roots, nestedImagePaths,
                 textures, t, outcome, result>>

\* doReadDirectory returns success
Finish ==
  /\ pc = "linkStandaloneShaders"
  /\ s > Len(shaders)
  /\ pc' = "done"
  /\ result' = "ok"
  /\ UNCHANGED <<fsInfo, existing, calls, failures, log, paths, parserOut,
                 nestedShaders, loaded, shaders, roots, nestedImagePaths,
                 textures, t, outcome, s, added>>

Next ==
  \/ LoadShadersNoDirectory
  \/ FindShaderFiles
  \/ LoadShaderFile
  \/ FoldShaders
  \/ FilterTextureSearchPaths
  \/ FindTextures
  \/ FoldTextures
  \/ LinkTexture
  \/ LinkTexturesDone
  \/ LinkStandaloneShader
  \/ Finish

Spec == Init /\ [][Next]_vars

(* ======================= properties of the pass ======================== *)
\* the shader path a texture maps to
Stripped(k) == Path(textures[k].dir, textures[k].stem, "")

\* positions of the addFile calls made at a path
AddedAt(path) == { i \in 1..Len(added) : added[i].path = path }

\* positions of the loaded descriptions with a shader path
LoadedWith(path) == { d \in 1..Len(loaded) : loaded[d].shaderPath = path }

\* number of addFile calls made by linkTextures so far: they come first
TextureAdds == Cardinality({ k \in 1..Len(outcome) : outcome[k] # "skipped" })

\* the shader paths in play
ShaderPaths ==
  { x.shaderPath : x \in ParsedShaders } \cup { Path(f.dir, f.stem, "") : f \in ImageFiles }

Linking == pc \in {"linkTextures", "linkStandaloneShaders", "done"}

HasDuplicatePaths(pool) ==
  \E i, j \in 1..Len(pool) : i # j /\ pool[i].shaderPath = pool[j].shaderPath

Min(S) == CHOOSE x \in S : \A y \in S : x <= y

C2_Original ==
  \A k \in 1..Len(textures) :
    Stripped(k) \in existing => AddedAt(Stripped(k)) = {}

\* C2 (amended): when a file already exists at the stripped path P of a
\* discovered texture before the pass, linkTextures skips every texture that
\* strips to P and registers nothing at P, neither a linked nor a generated
\* entry; the descriptions with shader path P stay in the pool and
\* linkStandaloneShaders registers each of them at P.
C2_ExistingFilePrecedence ==
  \A k \in 1..Len(textures) :
    Stripped(k) \in existing =>
      /\ k <= Len(outcome) => outcome[k] = "skipped"
      /\ AddedAt(Stripped(k)) \cap (1..TextureAdds) = {}
      /\ pc = "done" =>
           /\ Cardinality(AddedAt(Stripped(k))) = Cardinality(LoadedWith(Stripped(k)))
           /\ \A i \in AddedAt(Stripped(k)) : added[i].shader \in Range(loaded)

C2_Witness ==
  /\ pc = "done"
  /\ Len(textures) = 2
  /\ Stripped(1) \in existing
  /\ Stripped(2) = Stripped(1)
  /\ LoadedWith(Stripped(1)) # {}
  /\ outcome = <<"skipped", "skipped">>

(* ---- C4: implicit shader synthesis ------------------------------------ *)
\* the step linkTextures takes for a texture whose stripped path resolves to
\* no file and matches no pooled description
C4_Step ==
  (/\ pc = "linkTextures"
   /\ t <= Len(textures)
   /\ Stripped(t) \notin existing
   /\ AddedAt(Stripped(t)) = {}
   /\ \A j \in 1..Len(shaders) : shaders[j].shaderPath # Stripped(t))
    => /\ added' = Append(added,
                          [path |-> Stripped(t),
                           shader |-> [shaderPath |-> Stripped(t),
                                       editorImage |-> textures[t],
                                       stages |-> 0]])
       /\ shaders' = shaders

C4_State ==
  \A k \in 1..Len(outcome) :
    outcome[k] = "generated" =>
      LET generated == [shaderPath |-> Stripped(k), editorImage |-> textures[k],
                        stages |-> 0]
      IN /\ generated \notin Range(shaders)
         /\ \E i \in 1..TextureAdds :
              added[i] = [path |-> Stripped(k), shader |-> generated]
         /\ \A i \in (TextureAdds + 1)..Len(added) : added[i].path # Stripped(k)

\* C4: a texture T whose stripped path P resolves to no file and matches no
\* pooled description makes linkTextures register at P a description built
\* from (P, T) only; that description never enters the pool and
\* linkStandaloneShaders makes no registration at P.
C4_ImplicitSynthesis == [](C4_State) /\ [][C4_Step]_vars

C4_Witness ==
  /\ pc = "done"
  /\ Len(loaded) > 0
  /\ Len(textures) > 0
  /\ outcome[1] = "generated"
  /\ added[1].shader.editorImage = textures[1]
  /\ Len(added) > 1

(* ---- C5: malformed file isolation ------------------------------------- *)
\* what the opened files contribute: nothing where the parser threw
RECURSIVE Contribution(_)
Contribution(outs) ==
  IF outs = <<>> THEN <<>>
  ELSE (IF Head(outs).throws THEN <<>> ELSE Head(outs).shaders)
         \o Contribution(Tail(outs))

\* C5: a file on which the parser throws contributes an empty list and a
\* warning naming it; when no listing or opening fails, the loaded collection
\* holds the descriptions of all the other files in discovery order, however
\* many files are malformed, and only a failed call makes the pass fail.
C5_MalformedIsolation ==
  /\ \A i \in 1..Len(parserOut) :
       (parserOut[i].opened /\ parserOut[i].throws)
         => /\ nestedShaders[i] = [ok |-> TRUE, value |-> <<>>, error |-> ""]
            /\ \E e \in Range(log) : e.level = "warn" /\ e.path = paths[i]
  /\ (/\ pc \notin {"loadShaders", "loadShaderFile"}
      /\ fsInfo[m_shaderSearchPath] = "Directory"
      /\ \A c \in failures : c.op = "find" /\ c.path # m_shaderSearchPath)
       => /\ loaded = Contribution(parserOut)
          /\ Len(parserOut) = Len(paths)
  /\ result = "error" => failures # {}

C5_Witness ==
  /\ pc = "linkShaders"
  /\ Len(paths) = 2
  /\ ~parserOut[1].throws
  /\ parserOut[1].shaders # <<>>
  /\ parserOut[2].throws
  /\ loaded = parserOut[1].shaders

(* ---- C6: all or nothing on hard errors -------------------------------- *)
C6_State ==
  /\ failures # {} => added = <<>>
  /\ (failures # {} /\ pc \in {"done", "error"}) => result = "error"
  /\ added # <<>> =>
       /\ Len(nestedShaders) = Len(paths)
       /\ Len(nestedImagePaths) = Len(roots)
       /\ \A i \in 1..Len(nestedShaders) : nestedShaders[i].ok
       /\ \A i \in 1..Len(nestedImagePaths) : nestedImagePaths[i].ok

\* C6: once a listing or an opening has failed, addFile is never called and
\* the pass returns an error; addFile is called only when every find and
\* openFile of the pass has been made and has succeeded, and no find or
\* openFile follows an addFile.
C6_AllOrNothing == [](C6_State) /\ [][added' # <<>> => calls' = calls]_vars

C6_Witness ==
  /\ pc = "error"
  /\ result = "error"
  /\ Len(loaded) > 0
  /\ failures = {Call("find", m_textureSearchPaths[2])}
  /\ Len(nestedImagePaths) = 2
  /\ nestedImagePaths[1].value # <<>>
  /\ added = <<>>

(* ---- C7: a search root that is not a directory ------------------------ *)
\* the find calls made on texture search paths, in order
TextureFinds ==
  SelectSeq(calls, LAMBDA c : c.op = "find" /\ c.path \in Range(m_textureSearchPaths))

\* C7: a shader search path that is not a directory gives zero descriptions
\* with no find or openFile made for it, and the pass goes on; texture search
\* paths that are not directories get no find, the others are listed in
\* configured order and the textures are their listings in that order; the
\* pass fails only when a call failed.
C7_MissingRoots ==
  /\ fsInfo[m_shaderSearchPath] # "Directory" =>
       /\ \A i \in 1..Len(calls) :
            calls[i].op # "openFile" /\ calls[i].path # m_shaderSearchPath
       /\ loaded = <<>>
       /\ pc \notin {"loadShaderFile"}
  /\ \A i \in 1..Len(calls) :
       calls[i].op = "find" => fsInfo[calls[i].path] = "Directory"
  /\ Linking =>
       LET wanted == SelectSeq(m_textureSearchPaths,
                               LAMBDA p : fsInfo[p] = "Directory")
       IN /\ Len(TextureFinds) = Len(wanted)
          /\ \A i \in 1..Len(wanted) : TextureFinds[i].path = wanted[i]
          /\ Len(nestedImagePaths) = Len(wanted)
          /\ textures = vec_flatten(Values(nestedImagePaths))
  /\ result = "error" => failures # {}

C7_Witness ==
  /\ pc = "done"
  /\ fsInfo[m_shaderSearchPath] = "Unknown"
  /\ fsInfo[m_textureSearchPaths[1]] = "File"
  /\ fsInfo[m_textureSearchPaths[2]] = "Directory"
  /\ Len(textures) > 0
  /\ Len(added) > 0

Registering ==
  SelectSeq([k \in 1..Len(outcome) |-> k], LAMBDA k : outcome[k] # "skipped")

C10_Original == ~HasDuplicatePaths(shaders)

RECURSIVE RemoveFirst(_, _)
\* the pool without its first description with the given shader path
RemoveFirst(pool, path) ==
  IF pool = <<>> THEN <<>>
  ELSE IF Head(pool).shaderPath = path THEN Tail(pool)
  ELSE <<Head(pool)>> \o RemoveFirst(Tail(pool), path)

RECURSIVE Unclaimed(_, _)
\* the loaded descriptions not claimed by the first k textures
Unclaimed(pool, k) ==
  IF k = 0 THEN pool
  ELSE IF outcome[k] = "linked" THEN RemoveFirst(Unclaimed(pool, k - 1), Stripped(k))
  ELSE Unclaimed(pool, k - 1)

\* C10 (amended): at every instant of the pass the pending pool is the loaded
\* collection without the descriptions the textures processed so far have
\* claimed (one per linked texture, the first with its path), in loaded order;
\* so no two descriptions in the pool have the same shader path provided the
\* parser returned no two descriptions with the same shader path.
C10_PendingPool ==
  /\ shaders = Unclaimed(loaded, Len(outcome))
  /\ ~HasDuplicatePaths(loaded) => ~HasDuplicatePaths(shaders)

C10_Witness ==
  /\ pc = "linkStandaloneShaders"
  /\ Len(loaded) = 2
  /\ ~HasDuplicatePaths(loaded)
  /\ Len(shaders) = 1
  /\ shaders[1] = loaded[2]
  /\ outcome[1] = "linked"

====
